---- MODULE Spec2Model ----
(***************************************************************************)
(* A model of the `pages` crate (src/src/lib.rs): the page region `Pages`  *)
(* with its type-level permission tags and its calls to the operating      *)
(* system, and the growable buffer `PagedVec` built on one such region.    *)
(*                                                                         *)
(* Sizes are scaled: the page size and the two 0x1000 literals of          *)
(* PagedVec::new and PagedVec::get_next_cap are the one number PAGE_SIZE,  *)
(* as they are the one number 0x1000 in the source.  The element type T    *)
(* of the buffer has a teardown (Drop), as String has in                    *)
(* test_page_vec_drop; every pushed value carries its own identity.        *)
(***************************************************************************)
EXTENDS Integers, Sequences, FiniteSets, TLC

\* ------------------------------------------------------------- bounds
PAGE_SIZE == 2
MaxElemSize == 3
MaxHint == 1
MaxPush == 3
MaxAdditional == 1
MaxMaps == 2
MaxReq == 3
MaxRegions == 1
MaxOffset == 2
UsizeBits == 4

\* ---------------------------------------------------------- constants
PROT_READ == 1
PROT_WRITE == 2
PROT_EXEC == 4
PAGE_NOACCESS == 1
PAGE_READONLY == 2
PAGE_READWRITE == 4
PAGE_EXECUTE == 16
PAGE_EXECUTE_READ == 32
PAGE_EXECUTE_READWRITE == 64
\* the errno value a refused call leaves behind
ENOMEM == 12

VARIABLES
    platform,   \* "unix" | "windows": the cfg(target_family) of the build
    os,         \* the OS's address space: address -> [st, len, prot, nrel]
    calls,      \* the OS calls the last operation issued, in order
    errno,      \* the thread's last-error value (unix errno)
    out,        \* the outcome of the last operation
    pg,         \* the stand-alone Pages handle (or NoPages)
    nregions,   \* the number of stand-alone regions constructed so far
    pmem,       \* the bytes of the stand-alone region: offset -> value
    esize,      \* size_of::<T>() of the buffer's element type
    vstate,     \* "none" | "live" | "dropped" | "panicked" | "crashed"
    data,       \* PagedVec.data: the buffer's region handle
    len,        \* PagedVec.len
    mem,        \* the element slots of the buffer's region (0-based)
    nextId,     \* the identity of the next value handed to a push
    dropped,    \* identity -> number of teardowns run on that value so far
    tears       \* the teardowns the last operation ran, in order

pgvars == <<pg, nregions, pmem>>
vecvars == <<esize, vstate, data, len, mem, nextId, dropped, tears>>
vars == <<platform, os, calls, errno, out, pg, nregions, pmem,
          esize, vstate, data, len, mem, nextId, dropped, tears>>

Max(a, b) == IF a >= b THEN a ELSE b

\* ------------------------------------------------- the OS collaborator
MapIds == 1..MaxMaps
NoMap == [st |-> "none", len |-> 0, prot |-> 0, nrel |-> 0]
NoPtr == 0

HasFresh(o) == \E i \in MapIds : o[i].st = "none"
FreshId(o) == CHOOSE i \in MapIds : o[i].st = "none" /\ \A j \in MapIds : o[j].st = "none" => i <= j

\* NoRounding: the length is taken as requested.
NoRounding(size) == size
next_page_boundary(size) == ((size + PAGE_SIZE - 1) \div PAGE_SIZE) * PAGE_SIZE

\* The kernel state threaded through one operation: k = [os, calls, errno, ret].
Kernel == [os |-> os, calls |-> <<>>, errno |-> errno, ret |-> 0]

\* mmap / VirtualAlloc: a mapping of the page-rounded length, zero filled, at
\* the lowest free address, or the failure sentinel (ret = NoPtr) with the last
\* error set.
os_reserve(k, length, prot, ok) ==
    IF ok
    THEN LET id == FreshId(k.os) IN
         [k EXCEPT !.os[id] = [st |-> "mapped", len |-> next_page_boundary(length),
                               prot |-> prot, nrel |-> 0],
                   !.calls = Append(@, [fn |-> "reserve", ptr |-> id, len |-> length,
                                        prot |-> prot, ok |-> TRUE, live |-> TRUE]),
                   !.ret = id]
    ELSE [k EXCEPT !.calls = Append(@, [fn |-> "reserve", ptr |-> NoPtr, len |-> length,
                                        prot |-> prot, ok |-> FALSE, live |-> TRUE]),
                   !.errno = ENOMEM,
                   !.ret = NoPtr]

\* mprotect / VirtualProtect on [ptr, ptr+length): accepted only on a live mapping.
os_protect(k, ptr, length, prot, ok) ==
    LET live == k.os[ptr].st = "mapped"
        acc == ok /\ live
    IN [k EXCEPT !.os[ptr].prot = IF acc THEN prot ELSE @,
                 !.calls = Append(@, [fn |-> "protect", ptr |-> ptr, len |-> length,
                                      prot |-> prot, ok |-> acc, live |-> live]),
                 !.errno = IF acc THEN @ ELSE ENOMEM,
                 !.ret = IF acc THEN 0 ELSE -1]

\* munmap / VirtualFree of the mapping at ptr: an accepted call frees the
\* address; nrel counts the refused calls on a mapping that stays.
os_release(k, ptr, length, ok) ==
    LET live == k.os[ptr].st = "mapped"
        acc == ok /\ live
    IN [k EXCEPT !.os[ptr] = IF acc THEN NoMap ELSE [@ EXCEPT !.nrel = @ + 1],
                 !.calls = Append(@, [fn |-> "release", ptr |-> ptr, len |-> length,
                                      prot |-> 0, ok |-> acc, live |-> live]),
                 !.errno = IF acc THEN @ ELSE ENOMEM,
                 !.ret = IF acc THEN 0 ELSE -1]

\* ------------------------------------------------- permission markers
Tags == [r : BOOLEAN, w : BOOLEAN, e : BOOLEAN]
ReadBitmask(r) == IF r THEN PROT_READ ELSE 0
WriteBitmask(w) == IF w THEN PROT_WRITE ELSE 0
ExecBitmask(e) == IF e THEN PROT_EXEC ELSE 0

\* R::bitmask() | W::bitmask() | E::bitmask(): the three bits are disjoint.
bitmask(t) == ReadBitmask(t.r) + WriteBitmask(t.w) + ExecBitmask(t.e)

\* WriteOnlyIsNoAccess: the entry of the write-only state is PAGE_NOACCESS.
WriteOnlyIsNoAccess(t) ==
    LET mask == (IF t.r THEN 1 ELSE 0) + (IF t.w THEN 2 ELSE 0) + (IF t.e THEN 4 ELSE 0)
    IN CASE mask = 0 -> PAGE_NOACCESS
         [] mask = 1 -> PAGE_READONLY
         [] mask = 2 -> PAGE_NOACCESS
         [] mask = 3 -> PAGE_READWRITE
         [] mask = 4 -> PAGE_EXECUTE
         [] mask = 5 -> PAGE_EXECUTE_READ
         [] mask = 6 -> PAGE_EXECUTE_READWRITE
         [] mask = 7 -> PAGE_EXECUTE_READWRITE

flProtect(t) ==
    LET mask == (IF t.r THEN 1 ELSE 0) + (IF t.w THEN 2 ELSE 0) + (IF t.e THEN 4 ELSE 0)
    IN CASE mask = 0 -> PAGE_NOACCESS
         [] mask = 1 -> PAGE_READONLY
         [] mask = 2 -> PAGE_READWRITE
         [] mask = 3 -> PAGE_READWRITE
         [] mask = 4 -> PAGE_EXECUTE
         [] mask = 5 -> PAGE_EXECUTE_READ
         [] mask = 6 -> PAGE_EXECUTE_READWRITE
         [] mask = 7 -> PAGE_EXECUTE_READWRITE

\* The protection the build's binding computes from the tags.
NativeProt(t) == IF platform = "unix" THEN bitmask(t) ELSE flProtect(t)

\* ------------------------------------------------------- Pages
NoPages == [ptr |-> NoPtr, len |-> 0, tags |-> [r |-> FALSE, w |-> FALSE, e |-> FALSE]]

\* The content of a fresh mapping of n bytes: zero filled.
ZeroBytes(n) == [i \in 0..(n - 1) |-> 0]

\* The length handed to the OS: the rounded one to mmap, the requested one to
\* VirtualAlloc.
ReserveArg(length) == IF platform = "unix" THEN next_page_boundary(length) ELSE length

\* Pages::new_native: [k, h, res] with res "ok" | "panic".
new_native(k, length, t, ok) ==
    IF length = 0
    THEN [k |-> k, h |-> NoPages, res |-> "panic"]
    ELSE LET k1 == os_reserve(k, ReserveArg(length), NativeProt(t), ok)
         IN IF k1.ret = NoPtr
            THEN [k |-> k1, h |-> NoPages, res |-> "panic"]
            ELSE [k |-> k1,
                  h |-> [ptr |-> k1.ret, len |-> next_page_boundary(length), tags |-> t],
                  res |-> "ok"]

\* Drop for Pages: one release call; a refusal panics.
drop_pages(k, h, ok) ==
    LET k1 == os_release(k, h.ptr, IF platform = "unix" THEN h.len ELSE 0, ok)
    IN [k |-> k1, res |-> IF k1.ret = -1 THEN "panic" ELSE "ok"]

\* Pages::set_prot on the re-tagged region: one protection-change call over the
\* whole mapping; [k, res].  unix: panics when `mprotect(..) != -1 && erno() != 0`;
\* windows: panics when VirtualProtect returns 0.
set_prot_unix(k, h, ok) ==
    LET k1 == os_protect(k, h.ptr, h.len, bitmask(h.tags), ok)
    IN [k |-> k1, res |-> IF k1.ret # -1 /\ k1.errno # 0 THEN "panic" ELSE "ok"]

set_prot_windows(k, h, ok) ==
    LET k1 == os_protect(k, h.ptr, h.len, flProtect(h.tags), ok)
    IN [k |-> k1, res |-> IF k1.ret = -1 THEN "panic" ELSE "ok"]

set_prot(k, h, ok) ==
    IF platform = "unix" THEN set_prot_unix(k, h, ok) ELSE set_prot_windows(k, h, ok)

\* std::mem::forget(self) in into_prot: the handles of `self` whose Drop still
\* runs when into_prot is left (none).  NotForgotten: the call is missing.
NotForgotten(h) == {h}
forget(h) == {}

\* The early return of into_prot: old and new tags give the same OS protection.
\* AlwaysSetProt: the early return is missing.  NeverSetProt: it is always taken.
AlwaysSetProt(t1, t2) == FALSE
NeverSetProt(t1, t2) == TRUE
same_prot(t1, t2) == NativeProt(t1) = NativeProt(t2)

\* Pages::into_prot: [k, h, res].  A panic of set_prot unwinds through `res`,
\* whose Drop releases the mapping; a panic of that Drop aborts the process.
into_prot(k, h, t2, okProt, okRel) ==
    LET res == [h EXCEPT !.tags = t2]
        r1 == IF same_prot(h.tags, t2)
              THEN [k |-> k, h |-> res, res |-> "ok"]
              ELSE LET p == set_prot(k, res, okProt)
                   IN IF p.res = "ok"
                      THEN [k |-> p.k, h |-> res, res |-> "ok"]
                      ELSE LET d == drop_pages(p.k, res, okRel)
                           IN [k |-> d.k, h |-> NoPages,
                               res |-> IF d.res = "ok" THEN "panic" ELSE "abort"]
        left == forget(h)
    IN IF left = {}
       THEN r1
       ELSE LET d == drop_pages(r1.k, h, okRel)
            IN [k |-> d.k, h |-> r1.h,
                res |-> IF d.res = "ok" THEN r1.res
                        ELSE IF r1.res = "ok" THEN "panic" ELSE "abort"]

\* The target tags of each transition.
TransitionNames ==
    {"allow_read", "deny_read", "allow_write", "deny_write", "allow_write_no_exec",
     "allow_exec", "set_protected_exec", "deny_exec"}

\* DenyWriteDeniesRead: deny_write also clears the Read tag.
DenyWriteDeniesRead(name, t) ==
    CASE name = "allow_read" -> [t EXCEPT !.r = TRUE]
      [] name = "deny_read" -> [t EXCEPT !.r = FALSE]
      [] name = "allow_write" -> [t EXCEPT !.w = TRUE]
      [] name = "deny_write" -> [t EXCEPT !.w = FALSE, !.r = FALSE]
      [] name = "allow_write_no_exec" -> [t EXCEPT !.w = TRUE, !.e = FALSE]
      [] name = "allow_exec" -> [t EXCEPT !.e = TRUE]
      [] name = "set_protected_exec" -> [t EXCEPT !.w = FALSE, !.e = TRUE]
      [] name = "deny_exec" -> [t EXCEPT !.e = FALSE]

\* ProtectedExecKeepsWrite: set_protected_exec leaves the Write tag alone.
ProtectedExecKeepsWrite(name, t) ==
    CASE name = "allow_read" -> [t EXCEPT !.r = TRUE]
      [] name = "deny_read" -> [t EXCEPT !.r = FALSE]
      [] name = "allow_write" -> [t EXCEPT !.w = TRUE]
      [] name = "deny_write" -> [t EXCEPT !.w = FALSE]
      [] name = "allow_write_no_exec" -> [t EXCEPT !.w = TRUE, !.e = FALSE]
      [] name = "allow_exec" -> [t EXCEPT !.e = TRUE]
      [] name = "set_protected_exec" -> [t EXCEPT !.e = TRUE]
      [] name = "deny_exec" -> [t EXCEPT !.e = FALSE]

Target(name, t) ==
    CASE name = "allow_read" -> [t EXCEPT !.r = TRUE]
      [] name = "deny_read" -> [t EXCEPT !.r = FALSE]
      [] name = "allow_write" -> [t EXCEPT !.w = TRUE]
      [] name = "deny_write" -> [t EXCEPT !.w = FALSE]
      [] name = "allow_write_no_exec" -> [t EXCEPT !.w = TRUE, !.e = FALSE]
      [] name = "allow_exec" -> [t EXCEPT !.e = TRUE]
      [] name = "set_protected_exec" -> [t EXCEPT !.w = FALSE, !.e = TRUE]
      [] name = "deny_exec" -> [t EXCEPT !.e = FALSE]

\* ------------------------------------------- actions on a Pages region
Outcome(op, res, arg, val) == [op |-> op, res |-> res, arg |-> arg, val |-> val]

\* Pages::<R, W, E>::new(length)
PagesNew(length, t, ok) ==
    /\ pg = NoPages
    /\ nregions < MaxRegions
    /\ HasFresh(os)
    /\ LET n == new_native(Kernel, length, t, ok)
       IN /\ os' = n.k.os
          /\ calls' = n.k.calls
          /\ errno' = n.k.errno
          /\ pg' = n.h
          /\ pmem' = ZeroBytes(n.h.len)
          /\ out' = Outcome("new", n.res, length, n.h.len)
    /\ nregions' = nregions + 1
    /\ UNCHANGED <<platform, vecvars>>

\* allow_read .. deny_exec: each is self.into_prot() at its return type.
Transition(name, okProt, okRel) ==
    /\ pg # NoPages
    /\ LET n == into_prot(Kernel, pg, Target(name, pg.tags), okProt, okRel)
       IN /\ os' = n.k.os
          /\ calls' = n.k.calls
          /\ errno' = n.k.errno
          /\ pg' = n.h
          /\ pmem' = IF n.h = NoPages THEN ZeroBytes(0) ELSE pmem
          /\ out' = Outcome(name, n.res, 0, 0)
    /\ UNCHANGED <<platform, nregions, vecvars>>

\* The region goes out of scope: Drop for Pages.
PagesDrop(ok) ==
    /\ pg # NoPages
    /\ LET d == drop_pages(Kernel, pg, ok)
       IN /\ os' = d.k.os
          /\ calls' = d.k.calls
          /\ errno' = d.k.errno
          /\ out' = Outcome("drop", d.res, 0, 0)
    /\ pg' = NoPages
    /\ pmem' = ZeroBytes(0)
    /\ UNCHANGED <<platform, nregions, vecvars>>

\* The byte accesses.  Each is implemented only for the tag triples its impl
\* block names: Index, get_ptr for Pages<AllowRead, W, E>; IndexMut for
\* Pages<AllowRead, AllowWrite, E>; get_ptr_mut for Pages<R, AllowWrite, E>;
\* get_fn_ptr for Pages<R, W, AllowExec>.  RequiresNothing: implemented for
\* every triple.
AccessNames == {"index", "index_mut", "get_ptr", "get_ptr_mut", "get_fn_ptr"}
RequiresNothing(op) == {}
Requires(op) ==
    CASE op = "index" -> {"r"}
      [] op = "index_mut" -> {"r", "w"}
      [] op = "get_ptr" -> {"r"}
      [] op = "get_ptr_mut" -> {"w"}
      [] op = "get_fn_ptr" -> {"e"}

implemented(op, t) == \A a \in Requires(op) : t[a]

ByteValues == {0, 1}

\* Each access indexes the slice [0, len) of the region: an offset >= len panics.
\* Whether the OS lets the access through is the protection of the mapping,
\* os[ptr].prot; the accesses here are those of the slice.
\* Index::index: [res, val]
pages_index(h, b, offset) ==
    IF offset < h.len
    THEN [res |-> "ok", val |-> b[offset]]
    ELSE [res |-> "panic", val |-> 0]

\* IndexMut::index_mut followed by the store through the reference: [b, res]
pages_index_mut(h, b, offset, value) ==
    IF offset < h.len
    THEN [b |-> [b EXCEPT ![offset] = value], res |-> "ok"]
    ELSE [b |-> b, res |-> "panic"]

\* get_ptr, get_ptr_mut, get_fn_ptr: the address of the byte at offset,
\* as its offset from the base address: [res, val].  GetPtrUnchecked: the
\* index is not checked against the length.
GetPtrUnchecked(h, offset) == [res |-> "ok", val |-> offset]
pages_get_ptr(h, offset) ==
    IF offset < h.len
    THEN [res |-> "ok", val |-> offset]
    ELSE [res |-> "panic", val |-> 0]

\* let x = pages[offset]
Index(offset) ==
    /\ pg # NoPages
    /\ implemented("index", pg.tags)
    /\ LET a == pages_index(pg, pmem, offset)
       IN out' = Outcome("index", a.res, offset, a.val)
    /\ calls' = <<>>
    /\ UNCHANGED <<platform, os, errno, pgvars, vecvars>>

\* pages[offset] = value
IndexMut(offset, value) ==
    /\ pg # NoPages
    /\ implemented("index_mut", pg.tags)
    /\ LET a == pages_index_mut(pg, pmem, offset, value)
       IN /\ pmem' = a.b
          /\ out' = Outcome("index_mut", a.res, offset, value)
    /\ calls' = <<>>
    /\ UNCHANGED <<platform, os, errno, pg, nregions, vecvars>>

\* pages.get_ptr(offset), pages.get_ptr_mut(offset), pages.get_fn_ptr(offset)
GetPtr(op, offset) ==
    /\ pg # NoPages
    /\ op \in {"get_ptr", "get_ptr_mut", "get_fn_ptr"}
    /\ implemented(op, pg.tags)
    /\ LET a == pages_get_ptr(pg, offset)
       IN out' = Outcome(op, a.res, offset, a.val)
    /\ calls' = <<>>
    /\ UNCHANGED <<platform, os, errno, pgvars, vecvars>>

\* Some other call of the program fails and leaves its error in errno.
OtherCallFails ==
    /\ platform = "unix"
    /\ errno = 0
    /\ errno' = ENOMEM
    /\ calls' = <<>>
    /\ out' = Outcome("other", "err", 0, 0)
    /\ UNCHANGED <<platform, os, pgvars, vecvars>>

\* ------------------------------------------------------- PagedVec
\* The buffer's region is Pages<AllowRead, AllowWrite, DenyExec>.
VecTags == [r |-> TRUE, w |-> TRUE, e |-> FALSE]
ElemSizes == 1..MaxElemSize
Ids == 1..MaxPush
\* Slot contents: the identity of a constructed value, or Uninit: zero-filled
\* fresh memory or the bits of a MaybeUninit::uninit() placeholder.
Uninit == 0

\* The slots that start inside a region of `bytes` bytes; the last one reaches
\* past the region's end when size_of::<T>() does not divide `bytes`.
SlotCount(bytes) == (bytes + esize - 1) \div esize
Zeroed(n) == [i \in 1..n |-> Uninit]

\* v = [data, len, mem] is the buffer; d = [dropped, tears] records teardowns.
Vec == [data |-> data, len |-> len, mem |-> mem]
Drops == [dropped |-> dropped, tears |-> <<>>]

\* Drop glue of T run on the bits x.  owner: x was moved out of a slot below
\* len into a local that goes out of scope; otherwise it runs in place on a slot
\* at or beyond len, or on a placeholder.
teardown(d, x, owner) ==
    [dropped |-> IF x = Uninit THEN d.dropped ELSE [d.dropped EXCEPT ![x] = @ + 1],
     tears |-> Append(d.tears, [x |-> x, owner |-> owner])]

capacity(v) == v.data.len \div esize

get_next_cap(cap) == Max(cap + cap \div 2, PAGE_SIZE)

\* The test of push_within_capacity: self.len*size_of::<T>() < self.data.len()
\* RoomOffByOne: the test asks for room for one element more.
RoomOffByOne(v) == (v.len + 1) * esize < v.data.len
has_room(v) == v.len * esize < v.data.len

\* The move of t into slice[index].  StoreNothing: the store is missing.
StoreNothing(m, index, t) == m
slot_assign(m, index, t) == [m EXCEPT ![index + 1] = t]

\* push_within_capacity(t): [v, d, res, ret, ub].  `slice[self.len] = t` is a
\* drop-assignment: it tears down what the slot held, then moves t in.  ub: the
\* slot reaches past the region's end, so the write is out of bounds.
\* ret: the value handed back in Err(t), or Uninit when t was moved in.
push_within_capacity(v, d, t) ==
    IF has_room(v)
    THEN LET old == v.mem[v.len + 1]
         IN [v |-> [v EXCEPT !.mem = slot_assign(v.mem, v.len, t), !.len = @ + 1],
             d |-> teardown(d, old, FALSE),
             res |-> "ok",
             ret |-> Uninit,
             ub |-> (v.len + 1) * esize > v.data.len]
    ELSE [v |-> v, d |-> d, res |-> "err", ret |-> t, ub |-> FALSE]

\* usize arithmetic: a product that exceeds usize::MAX panics in a build with
\* overflow checks and wraps in a build without.
UsizeRange == 2 ^ UsizeBits
mul_overflows(a, b) == a * b >= UsizeRange
wrapping_mul(a, b) == (a * b) % UsizeRange

\* The capacities handed to PagedVec::new: the small ones, and one whose byte
\* size does not fit a usize for elements of two bytes or more.
Hints == (0..MaxHint) \cup {UsizeRange \div 2}

\* PagedVec::new(capacity): [k, v, res].  checks: the build has overflow checks.
vec_new(k, hint, checks, ok) ==
    IF checks /\ mul_overflows(hint, esize)
    THEN [k |-> k,
          v |-> [data |-> NoPages, len |-> 0, mem |-> Zeroed(0)],
          res |-> "panic"]
    ELSE LET bytes_min == Max(wrapping_mul(hint, esize), PAGE_SIZE)
             n == new_native(k, bytes_min, VecTags, ok)
         IN [k |-> n.k,
             v |-> [data |-> n.h, len |-> 0, mem |-> Zeroed(SlotCount(n.h.len))],
             res |-> n.res]

\* The bytes resize copies: [0, cpy_len) of the old region into the fresh, zero
\* filled one, that is the slots [0, len).
copy_from_slice(v, newlen) ==
    [i \in 1..SlotCount(newlen) |-> IF i <= v.len THEN v.mem[i] ELSE Uninit]

\* PagedVec::resize(next_cap): [k, v, res].  Pages::new panics on a zero size or
\* an OS refusal; split_at_mut(cpy_len) panics when cpy_len exceeds the slice, and
\* the unwinding drops the new region; `self.data = data` drops the old region
\* and puts the new one in its place.
\* ReleaseThenReserve: the old region is dropped before the new one is asked for.
ReleaseThenReserve(k, v, next_cap, okMap, okRel) ==
    LET dd == drop_pages(k, v.data, okRel)
        n == new_native(dd.k, next_cap * esize, VecTags, okMap)
    IN IF n.res # "ok"
       THEN [k |-> n.k, v |-> [v EXCEPT !.data = NoPages], res |-> "panic"]
       ELSE [k |-> n.k,
             v |-> [data |-> n.h, len |-> v.len, mem |-> copy_from_slice(v, n.h.len)],
             res |-> dd.res]

resize(k, v, next_cap, okMap, okRel) ==
    LET bytes_cap == next_cap * esize
        n == new_native(k, bytes_cap, VecTags, okMap)
        cpy_len == v.len * esize
    IN IF n.res # "ok"
       THEN [k |-> n.k, v |-> v, res |-> "panic"]
       ELSE IF cpy_len > n.h.len \/ cpy_len > v.data.len
       THEN LET dn == drop_pages(n.k, n.h, okRel)
            IN [k |-> dn.k, v |-> v, res |-> IF dn.res = "ok" THEN "panic" ELSE "abort"]
       ELSE LET dd == drop_pages(n.k, v.data, okRel)
            IN [k |-> dd.k,
                v |-> [data |-> n.h, len |-> v.len, mem |-> copy_from_slice(v, n.h.len)],
                res |-> dd.res]

\* The early return of reserve and reserve_exact.  AlwaysSufficient: the early
\* return is always taken.
AlwaysSufficient(v, additional) == TRUE
sufficient(v, additional) == v.len + additional < capacity(v)

reserve(k, v, additional, okMap, okRel) ==
    IF sufficient(v, additional)
    THEN [k |-> k, v |-> v, res |-> "ok"]
    ELSE resize(k, v, get_next_cap(v.len + additional), okMap, okRel)

reserve_exact(k, v, additional, okMap, okRel) ==
    IF sufficient(v, additional)
    THEN [k |-> k, v |-> v, res |-> "ok"]
    ELSE resize(k, v, v.len + additional, okMap, okRel)

\* PagedVec::push(t): [k, v, d, res, ub]
push(k, v, d, t, okMap, okRel) ==
    LET p1 == push_within_capacity(v, d, t)
    IN IF p1.res = "ok"
       THEN [k |-> k, v |-> p1.v, d |-> p1.d, res |-> "ok", ub |-> p1.ub]
       ELSE LET g == resize(k, v, get_next_cap(capacity(v)), okMap, okRel)
            IN IF g.res # "ok"
               THEN [k |-> g.k, v |-> g.v, d |-> d, res |-> g.res, ub |-> FALSE]
               ELSE LET p2 == push_within_capacity(g.v, d, t)
                    IN [k |-> g.k, v |-> p2.v, d |-> p2.d,
                        res |-> IF p2.res = "ok" THEN "ok" ELSE "panic",
                        ub |-> p2.ub]

\* ptr::copy(ptr.add(1), ptr, len - index - 1) of remove: the slots after index
\* move one to the left; the slot len-1 keeps its bits.  ShiftNothing: the copy
\* is missing.
ShiftNothing(m, index, n) == m
ptr_copy_down(m, index, n) ==
    [i \in 1..Len(m) |-> IF i >= index + 1 /\ i <= n - 1 THEN m[i + 1] ELSE m[i]]

\* PagedVec::remove(index): [v, d, res, ret].  There is no bounds check.  With
\* index >= len, ptr::read copies the bits of a slot that holds no element (past
\* the region's end the read is out of bounds), and `self.len - index - 1`
\* underflows: a build with overflow checks panics there, and the unwinding
\* drops `ret`, which holds the bits read; a build without them hands the wrapped
\* count to ptr::copy, which runs off the mapping.
remove(v, d, index, checks, crash) ==
    IF index < v.len
    THEN [v |-> [v EXCEPT !.mem = ptr_copy_down(v.mem, index, v.len), !.len = @ - 1],
          d |-> d, res |-> "ok", ret |-> v.mem[index + 1]]
    ELSE LET inside == index + 1 <= Len(v.mem)
             bits == IF inside THEN v.mem[index + 1] ELSE Uninit
         IN IF ~checks \/ (~inside /\ crash)
            THEN [v |-> v, d |-> d, res |-> "crash", ret |-> Uninit]
            ELSE [v |-> v, d |-> teardown(d, bits, FALSE), res |-> "panic", ret |-> bits]

\* PagedVec::drop_all: for i in 0..len, swap self[i] with an uninitialised tmp and
\* let tmp, now holding the element, go out of scope.  [v, d]
RECURSIVE drop_from(_, _, _)
drop_from(v, d, i) ==
    IF i >= v.len
    THEN [v |-> v, d |-> d]
    ELSE drop_from([v EXCEPT !.mem[i + 1] = Uninit], teardown(d, v.mem[i + 1], TRUE), i + 1)

\* DropNothing: the loop is missing.
DropNothing(v, d) == [v |-> v, d |-> d]
drop_all(v, d) == drop_from(v, d, 0)

\* PagedVec::clear: [v, d].  ClearKeepsLen: `self.len = 0` is missing.
ClearKeepsLen(v, d) == drop_all(v, d)
clear(v, d) ==
    LET a == drop_all(v, d) IN [v |-> [a.v EXCEPT !.len = 0], d |-> a.d]

\* PagedVec::pop: [v, d, res, ret].  `self[last_index]` indexes the view
\* [0, len) of deref_mut with last_index = self.len.  In bounds, the element is
\* swapped out against the uninitialised `res`; out of bounds, the index panics
\* and the unwinding drops `res`, which holds no constructed value.
pop(v, d) ==
    LET last_index == v.len
    IN IF last_index < v.len
       THEN [v |-> [v EXCEPT !.mem[last_index + 1] = Uninit, !.len = @ - 1],
             d |-> d, res |-> "ok", ret |-> v.mem[last_index + 1]]
       ELSE [v |-> v, d |-> teardown(d, Uninit, FALSE), res |-> "panic", ret |-> Uninit]

\* ------------------------------------------------ actions on a PagedVec
SetKernel(k) ==
    /\ os' = k.os
    /\ calls' = k.calls
    /\ errno' = k.errno

SetVec(v) ==
    /\ data' = v.data
    /\ len' = v.len
    /\ mem' = v.mem

SetDrops(d) ==
    /\ dropped' = d.dropped
    /\ tears' = d.tears

\* let mut vec = PagedVec::<T>::new(hint)
VecNew(hint, checks, ok) ==
    /\ vstate = "none"
    /\ HasFresh(os)
    /\ LET n == vec_new(Kernel, hint, checks, ok)
       IN /\ SetKernel(n.k)
          /\ IF n.res = "ok"
             THEN SetVec(n.v) /\ vstate' = "live"
             ELSE UNCHANGED <<data, len, mem, vstate>>
          /\ out' = Outcome("vec_new", n.res, hint, 0)
    /\ tears' = <<>>
    /\ UNCHANGED <<platform, pgvars, esize, nextId, dropped>>

\* vec.push_within_capacity(t) with a fresh value t.  An out-of-bounds write is
\* undefined: the process is killed (crash), or the bytes past the region's end
\* are writable memory and the call goes on.
PushWithinCapacity(crash) ==
    /\ vstate = "live"
    /\ nextId <= MaxPush
    /\ LET p == push_within_capacity(Vec, Drops, nextId)
       IN IF p.ub /\ crash
          THEN /\ vstate' = "crashed"
               /\ out' = Outcome("push_within_capacity", "crash", nextId, 0)
               /\ SetDrops(p.d)
               /\ UNCHANGED <<data, len, mem, nextId>>
          ELSE /\ SetVec(p.v)
               /\ SetDrops(p.d)
               /\ nextId' = IF p.res = "ok" THEN nextId + 1 ELSE nextId
               /\ out' = Outcome("push_within_capacity", p.res, nextId, p.ret)
               /\ UNCHANGED vstate
    /\ calls' = <<>>
    /\ UNCHANGED <<platform, os, errno, pgvars, esize>>

\* vec.push(t) with a fresh value t.
Push(okMap, okRel, crash) ==
    /\ vstate = "live"
    /\ nextId <= MaxPush
    /\ HasFresh(os)
    /\ LET p == push(Kernel, Vec, Drops, nextId, okMap, okRel)
       IN IF p.ub /\ crash
          THEN /\ vstate' = "crashed"
               /\ out' = Outcome("push", "crash", nextId, 0)
               /\ SetKernel(p.k)
               /\ SetVec([p.v EXCEPT !.len = @ - 1])
               /\ SetDrops(p.d)
               /\ UNCHANGED nextId
          ELSE /\ SetKernel(p.k)
               /\ SetVec(p.v)
               /\ SetDrops(p.d)
               /\ nextId' = IF p.res = "ok" THEN nextId + 1 ELSE nextId
               /\ out' = Outcome("push", p.res, nextId, 0)
               /\ UNCHANGED vstate
    /\ UNCHANGED <<platform, pgvars, esize>>

Reserve(additional, okMap, okRel) ==
    /\ vstate = "live"
    /\ HasFresh(os)
    /\ LET g == reserve(Kernel, Vec, additional, okMap, okRel)
       IN /\ SetKernel(g.k)
          /\ SetVec(g.v)
          /\ out' = Outcome("reserve", g.res, additional, 0)
    /\ tears' = <<>>
    /\ UNCHANGED <<platform, pgvars, esize, vstate, nextId, dropped>>

ReserveExact(additional, okMap, okRel) ==
    /\ vstate = "live"
    /\ HasFresh(os)
    /\ LET g == reserve_exact(Kernel, Vec, additional, okMap, okRel)
       IN /\ SetKernel(g.k)
          /\ SetVec(g.v)
          /\ out' = Outcome("reserve_exact", g.res, additional, 0)
    /\ tears' = <<>>
    /\ UNCHANGED <<platform, pgvars, esize, vstate, nextId, dropped>>

\* let x = vec.remove(index); a returned x then goes out of scope in the
\* caller, which runs its teardown.  A panic of remove ends the program's use of
\* the buffer.  The indices tried are those of the elements and the first one
\* past them; the build (checks) and the outcome of an out-of-bounds read
\* (crash) matter only when index >= len.
Remove(index, checks, crash) ==
    /\ vstate = "live"
    /\ index <= len
    /\ index < len => (checks /\ ~crash)
    /\ LET r == remove(Vec, Drops, index, checks, crash)
       IN /\ SetVec(r.v)
          /\ SetDrops(IF r.res = "ok" THEN teardown(r.d, r.ret, TRUE) ELSE r.d)
          /\ out' = Outcome("remove", r.res, index, r.ret)
          /\ vstate' = CASE r.res = "ok" -> vstate
                          [] r.res = "panic" -> "panicked"
                          [] r.res = "crash" -> "crashed"
    /\ calls' = <<>>
    /\ UNCHANGED <<platform, os, errno, pgvars, esize, nextId>>

\* let x = vec.pop(); a returned x goes out of scope in the caller.
Pop ==
    /\ vstate = "live"
    /\ LET p == pop(Vec, Drops)
       IN /\ SetVec(p.v)
          /\ SetDrops(IF p.res = "ok" THEN teardown(p.d, p.ret, TRUE) ELSE p.d)
          /\ out' = Outcome("pop", p.res, 0, p.ret)
    /\ calls' = <<>>
    /\ UNCHANGED <<platform, os, errno, pgvars, esize, vstate, nextId>>

Clear ==
    /\ vstate = "live"
    /\ LET c == clear(Vec, Drops)
       IN /\ SetVec(c.v)
          /\ SetDrops(c.d)
          /\ out' = Outcome("clear", "ok", 0, 0)
    /\ calls' = <<>>
    /\ UNCHANGED <<platform, os, errno, pgvars, esize, vstate, nextId>>

\* Drop for PagedVec: drop_all, then the field `data` is dropped.  The outcome
\* records how many teardowns had run when the release call was issued.
Destroy(okRel) ==
    /\ vstate = "live"
    /\ LET a == drop_all(Vec, Drops)
           r == drop_pages(Kernel, data, okRel)
       IN /\ SetKernel(r.k)
          /\ SetDrops(a.d)
          /\ mem' = a.v.mem
          /\ out' = Outcome("destroy", r.res, Len(a.d.tears), 0)
    /\ data' = NoPages
    /\ vstate' = "dropped"
    /\ UNCHANGED <<platform, pgvars, esize, len, nextId>>

\* ------------------------------------------------------ specifications
InitOs ==
    /\ os = [i \in MapIds |-> NoMap]
    /\ calls = <<>>
    /\ errno = 0
    /\ out = Outcome("init", "ok", 0, 0)
    /\ pg = NoPages
    /\ nregions = 0
    /\ pmem = ZeroBytes(0)
    /\ vstate = "none"
    /\ data = NoPages
    /\ len = 0
    /\ mem = <<>>
    /\ nextId = 1
    /\ dropped = [i \in Ids |-> 0]
    /\ tears = <<>>

\* A PagedVec<T> for each element size, on the unix binding, with an OS that
\* accepts every call.
Init == InitOs /\ platform = "unix" /\ esize \in ElemSizes

Next ==
    \/ \E h \in Hints, checks \in BOOLEAN : VecNew(h, checks, TRUE)
    \/ \E crash \in BOOLEAN : PushWithinCapacity(crash)
    \/ \E crash \in BOOLEAN : Push(TRUE, TRUE, crash)
    \/ \E a \in 0..MaxAdditional : Reserve(a, TRUE, TRUE)
    \/ \E a \in 0..MaxAdditional : ReserveExact(a, TRUE, TRUE)
    \/ \E i \in 0..MaxPush, checks \in BOOLEAN, crash \in BOOLEAN : Remove(i, checks, crash)
    \/ Pop
    \/ Clear
    \/ Destroy(TRUE)

Spec == Init /\ [][Next]_vars

\* A PagedVec<T> that is constructed, pushed to and grown, with an OS that may
\* refuse any reservation.
RefusalNext ==
    \/ \E h \in Hints, checks \in BOOLEAN, ok \in BOOLEAN : VecNew(h, checks, ok)
    \/ \E crash \in BOOLEAN : PushWithinCapacity(crash)
    \/ \E okMap \in BOOLEAN, crash \in BOOLEAN : Push(okMap, TRUE, crash)
    \/ \E a \in 0..MaxAdditional, okMap \in BOOLEAN : Reserve(a, okMap, TRUE)
    \/ \E a \in 0..MaxAdditional, okMap \in BOOLEAN : ReserveExact(a, okMap, TRUE)
    \/ Destroy(TRUE)

RefusalSpec == Init /\ [][RefusalNext]_vars

\* A stand-alone Pages region with any of the eight tag triples, on either
\* binding, with an OS that may refuse any call.
PagesInit == InitOs /\ platform \in {"unix", "windows"} /\ esize = 1

PagesNext ==
    \/ \E l \in 0..MaxReq, t \in Tags, ok \in BOOLEAN : PagesNew(l, t, ok)
    \/ \E n \in TransitionNames, okProt \in BOOLEAN, okRel \in BOOLEAN : Transition(n, okProt, okRel)
    \/ \E ok \in BOOLEAN : PagesDrop(ok)
    \/ OtherCallFails

PagesSpec == PagesInit /\ [][PagesNext]_vars

\* A stand-alone Pages region that is also read and written, with an OS that
\* may refuse a protection change.
AccessNext ==
    \/ \E l \in 0..MaxReq, t \in Tags : PagesNew(l, t, TRUE)
    \/ \E n \in TransitionNames, okProt \in BOOLEAN : Transition(n, okProt, TRUE)
    \/ PagesDrop(TRUE)
    \/ \E o \in 0..MaxOffset : Index(o)
    \/ \E o \in 0..MaxOffset, b \in ByteValues : IndexMut(o, b)
    \/ \E op \in AccessNames, o \in 0..MaxOffset : GetPtr(op, o)

AccessSpec == PagesInit /\ [][AccessNext]_vars

\* ------------------------------------------------------------ claims
IsProtect(c) == c.fn = "protect"
IsRelease(c) == c.fn = "release"
IsReserve(c) == c.fn = "reserve"
ProtectCalls(cs) == SelectSeq(cs, IsProtect)
ReleaseCalls(cs) == SelectSeq(cs, IsRelease)
pushed == 1..(nextId - 1)

\* C1: every pushed element is torn down exactly once, by the buffer or by the
\* caller it was returned to, and no teardown runs on a slot at or beyond the
\* logical length (vacated, stale or never constructed) or on other bits that
\* are no constructed value: every teardown is of a value moved out of a live
\* slot, no value is torn down twice, and after the buffer's destruction every
\* pushed value has been torn down once.
C1_TeardownOncePerPush ==
    /\ \A i \in 1..Len(tears) : tears[i].owner /\ tears[i].x # Uninit
    /\ \A id \in Ids : dropped[id] <= 1
    /\ vstate = "dropped" => \A id \in pushed : dropped[id] = 1

\* C2: pop() on a buffer with length >= 1 succeeds, returns the element at index
\* length-1, decrements length by one and leaves the elements below it unchanged.
C2_PopReturnsLast ==
    [][(out'.op = "pop" /\ len >= 1)
        => /\ out'.res = "ok"
           /\ out'.val = mem[len]
           /\ len' = len - 1
           /\ \A i \in 1..(len - 1) : mem'[i] = mem[i]]_vars

\* C3: in every state of a live buffer, length * size_of(T) <= region length and
\* length <= capacity().
C3_LenWithinRegion ==
    vstate = "live" => /\ len * esize <= data.len
                       /\ len <= capacity(Vec)

\* C4: a transition whose protection-change call the OS refuses is fatal: it
\* returns no region, and it issues that call only once.
C4_RefusedProtectIsFatal ==
    (out.op \in TransitionNames /\ \E i \in 1..Len(calls) : IsProtect(calls[i]) /\ ~calls[i].ok)
        => /\ out.res # "ok"
           /\ pg = NoPages
           /\ Len(ProtectCalls(calls)) = 1

\* C5: a region's mapping is released by exactly one release call: while its
\* handle lives the mapping is mapped and no release was issued on it; once the
\* handle is gone, through Drop or through a fatal transition, one release call
\* has been issued on it (a mapping still there was refused that one call); no
\* operation issues two release calls, and no protect or release call is ever
\* issued on an address that is not mapped.
C5_OneReleasePerRegion ==
    /\ \A i \in 1..Len(calls) : calls[i].live
    /\ Len(ReleaseCalls(calls)) <= 1
    /\ pg # NoPages => os[pg.ptr].st = "mapped" /\ os[pg.ptr].nrel = 0
    /\ \A a \in MapIds : (os[a].st = "mapped" /\ pg.ptr # a) => os[a].nrel = 1
    /\ (out.op = "drop" \/ (out.op \in TransitionNames /\ out.res # "ok"))
          => pg = NoPages /\ Len(ReleaseCalls(calls)) = 1

\* C5 witness: a transition ended in a fatal protection-change failure, and the
\* unwinding released the mapping.
C5_Witness ==
    /\ out.op \in TransitionNames
    /\ out.res = "panic"
    /\ pg = NoPages
    /\ Len(calls) = 2 /\ IsProtect(calls[1]) /\ IsRelease(calls[2])

\* C6: a transition to tags with the same effective OS protection issues no OS
\* call; a transition to a different effective protection issues exactly one
\* protection-change call, on the region's whole mapping, with the protection of
\* the new tags.
C6_ProtectOnlyOnChange ==
    [][(out'.op \in TransitionNames /\ pg # NoPages)
        => LET t2 == Target(out'.op, pg.tags)
               pc == ProtectCalls(calls')
           IN IF NativeProt(pg.tags) = NativeProt(t2)
              THEN calls' = <<>>
              ELSE /\ Len(pc) = 1
                   /\ IsProtect(calls'[1])
                   /\ pc[1].ptr = pg.ptr
                   /\ pc[1].len = os[pg.ptr].len
                   /\ pc[1].prot = NativeProt(t2)]_vars

\* C6 witness: allow_write on a region that was already writable returned
\* without any OS call.
C6_Witness ==
    /\ out.op = "allow_write"
    /\ out.res = "ok"
    /\ pg # NoPages /\ pg.tags.w
    /\ calls = <<>>

\* C7: remove(i) with i < length returns the element that was at index i, leaves
\* length-1 elements, those before i where they were and those after i one slot
\* to the left; capacity and the backing region are unchanged and no OS call is
\* issued.
C7_RemoveShiftsLeft ==
    [][(out'.op = "remove" /\ out'.arg < len)
        => LET i == out'.arg
           IN /\ out'.res = "ok"
              /\ out'.val = mem[i + 1]
              /\ len' = len - 1
              /\ \A j \in 1..i : mem'[j] = mem[j]
              /\ \A j \in (i + 1)..(len - 1) : mem'[j] = mem[j + 1]
              /\ data' = data
              /\ os' = os
              /\ calls' = <<>>]_vars

\* C7 witness: the middle element of three was removed.
C7_Witness ==
    /\ out.op = "remove"
    /\ out.arg = 1
    /\ len = 2
    /\ mem[1] # Uninit /\ mem[2] # Uninit /\ mem[1] < out.val /\ out.val < mem[2]

\* C8: reserve(additional) and reserve_exact(additional) do nothing whenever
\* length + additional <= capacity(): no OS call, the same region, length and
\* elements.
C8_ReserveNoopWhenSufficient ==
    [][(out'.op \in {"reserve", "reserve_exact"} /\ len + out'.arg <= capacity(Vec))
        => /\ out'.res = "ok"
           /\ calls' = <<>>
           /\ data' = data
           /\ len' = len
           /\ mem' = mem]_vars

\* C9: every push on a buffer that was only pushed to succeeds: it appends the
\* value after the unchanged elements, never lowers the capacity, and a growth
\* from capacity c gives a capacity of at least max(c + c/2, one page of
\* elements).
C9_PushAlwaysSucceeds ==
    [][out'.op = "push"
        => /\ out'.res = "ok"
           /\ len' = len + 1
           /\ mem'[len + 1] = out'.arg
           /\ \A i \in 1..len : mem'[i] = mem[i]
           /\ data'.len \div esize >= capacity(Vec)
           /\ data' # data => data'.len \div esize >= Max(capacity(Vec) + capacity(Vec) \div 2, PAGE_SIZE)]_vars

\* C10: every growth reserves one new region, then releases the old one, once;
\* length and the elements [0, length) are the same afterwards (push then appends
\* its value), and a growth by reserve or reserve_exact runs no teardown.
C10_GrowthRelocates ==
    [][(out'.op \in {"push", "reserve", "reserve_exact"} /\ calls' # <<>>)
        => /\ Len(calls') = 2
           /\ IsReserve(calls'[1]) /\ calls'[1].ok
           /\ IsRelease(calls'[2]) /\ calls'[2].ptr = data.ptr /\ calls'[2].live
           /\ data'.ptr = calls'[1].ptr
           /\ len' = IF out'.op = "push" THEN len + 1 ELSE len
           /\ \A i \in 1..len : mem'[i] = mem[i]
           /\ out'.op # "push" => tears' = <<>>]_vars

\* C11: push_within_capacity never changes the backing region (so neither the
\* capacity) and issues no OS call; when it fails it changes neither the length
\* nor any slot, runs no teardown and hands its value back; when it succeeds it
\* stores the value at index (old length), increases the length by one and leaves
\* the elements [0, old length) unchanged.
C11_PushWithinCapacityFrame ==
    [][out'.op = "push_within_capacity"
        => /\ data' = data
           /\ os' = os
           /\ calls' = <<>>
           /\ out'.res = "err" => /\ len' = len
                                  /\ mem' = mem
                                  /\ tears' = <<>>
                                  /\ out'.val = out'.arg
                                  /\ nextId' = nextId
           /\ out'.res = "ok" => /\ len' = len + 1
                                 /\ mem'[len + 1] = out'.arg
                                 /\ \A i \in 1..len : mem'[i] = mem[i]]_vars

\* C11 witness: after a successful call filled the buffer, the next call failed
\* and handed its value back.
C11_Witness ==
    /\ out.op = "push_within_capacity"
    /\ out.res = "err"
    /\ out.val = out.arg
    /\ len >= 1
    /\ mem[len] = out.arg - 1

\* C12: clear() leaves length 0 with the backing region (so the capacity)
\* unchanged and issues no OS call; and every push on a buffer whose length is
\* below its capacity, as the first capacity() pushes after a clear() are, appends
\* without growth: no OS call, the same region.
C12_ClearKeepsRegion ==
    [][/\ out'.op = "clear"
           => /\ len' = 0
              /\ data' = data
              /\ os' = os
              /\ calls' = <<>>
       /\ (out'.op = "push" /\ len < capacity(Vec))
           => /\ out'.res = "ok"
              /\ len' = len + 1
              /\ data' = data
              /\ os' = os
              /\ calls' = <<>>]_vars

\* C12 witness: after a clear() tore down every element pushed before it, pushes
\* filled the buffer to its capacity again without any OS call.
C12_Witness ==
    /\ out.op = "push"
    /\ out.res = "ok"
    /\ calls = <<>>
    /\ len >= 1
    /\ len = capacity(Vec)
    /\ nextId - 1 > len
    /\ \A i \in 1..len : mem[i] = nextId - 1 - len + i
    /\ \A id \in 1..(nextId - 1 - len) : dropped[id] = 1
    /\ \A id \in (nextId - len)..(nextId - 1) : dropped[id] = 0

\* C13: remove(index) with index >= length halts (it does not crash and does
\* not return) without changing the length, without moving or reading out any
\* slot and without running a teardown.
C13_RemoveOutOfRangeRejected ==
    [][(out'.op = "remove" /\ out'.arg >= len)
        => /\ out'.res = "panic"
           /\ out'.val = Uninit
           /\ len' = len
           /\ mem' = mem
           /\ tears' = <<>>
           /\ dropped' = dropped]_vars

\* C14: pop() on a buffer of length 0 fails and leaves the buffer unchanged:
\* length 0, the same region and slots, no OS call, and no teardown is run.
C14_PopEmptyFails ==
    [][(out'.op = "pop" /\ len = 0)
        => /\ out'.res = "panic"
           /\ len' = 0
           /\ data' = data
           /\ mem' = mem
           /\ os' = os
           /\ calls' = <<>>
           /\ tears' = <<>>]_vars

\* C18: for an element size that divides the page size, as 8 bytes does: a new
\* buffer is empty with room for a small hint; push_within_capacity succeeds exactly
\* while length < capacity, so c calls in a row succeed on an empty buffer of
\* capacity c; the next one fails, returns its value and changes nothing; and a
\* push at length = capacity = c succeeds and leaves a capacity >= c + c/2.
C18_FillThenGrow ==
    [][PAGE_SIZE % esize = 0
        => /\ (out'.op = "vec_new" /\ out'.res = "ok")
               => /\ len' = 0
                  /\ out'.arg <= MaxHint
                      => /\ data'.len \div esize >= out'.arg
                         /\ data'.len >= out'.arg * esize
           /\ out'.op = "push_within_capacity"
               => IF len < capacity(Vec)
                  THEN /\ out'.res = "ok"
                       /\ len' = len + 1
                       /\ data' = data
                  ELSE /\ out'.res = "err"
                       /\ out'.val = out'.arg
                       /\ len' = len
                       /\ mem' = mem
                       /\ data' = data
           /\ (out'.op = "push" /\ len = capacity(Vec))
               => /\ out'.res = "ok"
                  /\ len' = len + 1
                  /\ mem'[len + 1] = out'.arg
                  /\ data'.len \div esize >= capacity(Vec) + capacity(Vec) \div 2]_vars

\* C18 witness: a buffer that was only pushed to was full, and a push grew it.
C18_Witness ==
    /\ out.op = "push"
    /\ out.res = "ok"
    /\ Len(calls) = 2
    /\ PAGE_SIZE % esize = 0
    /\ len >= 2
    /\ \A i \in 1..len : mem[i] = i
    /\ \A id \in Ids : dropped[id] = 0
    /\ capacity(Vec) >= (len - 1) + (len - 1) \div 2

C15_ConstructRoundsUp ==
    out.op = "new"
        => IF out.arg = 0
           THEN /\ out.res = "panic"
                /\ calls = <<>>
                /\ pg = NoPages
           ELSE /\ Len(calls) = 1
                /\ IsReserve(calls[1])
                /\ out.res = "ok" <=> calls[1].ok
                /\ out.res = "ok"
                    => /\ pg # NoPages
                       /\ pg.len % PAGE_SIZE = 0
                       /\ pg.len >= out.arg
                       /\ pg.len < out.arg + PAGE_SIZE
                       /\ pg.ptr = calls[1].ptr
                       /\ calls[1].prot = NativeProt(pg.tags)
                       /\ os[pg.ptr].st = "mapped"
                       /\ os[pg.ptr].len = pg.len
                       /\ os[pg.ptr].prot = NativeProt(pg.tags)

\* C15 witness: a request above one page that is no multiple of the page size
\* was rounded up.
C15_Witness ==
    /\ out.op = "new"
    /\ out.res = "ok"
    /\ out.arg > PAGE_SIZE
    /\ pg.len > out.arg

\* C16: a byte read (Index, get_ptr) was performed only on a region whose Read
\* tag is Allow, a byte write (IndexMut, get_ptr_mut) only on one whose Write tag
\* is Allow, and get_fn_ptr only on one whose Exec tag is Allow, whatever the
\* construction and the transitions before it.
C16_AccessNeedsAllowTag ==
    /\ out.op \in {"index", "get_ptr"} => pg.tags.r
    /\ out.op \in {"index_mut", "get_ptr_mut"} => pg.tags.w
    /\ out.op = "get_fn_ptr" => pg.tags.e

\* C16 witness: a byte written while the region was writable; the region, now
\* executable and no longer writable, gave out a function pointer.
C16_Witness ==
    /\ out.op = "get_fn_ptr"
    /\ out.res = "ok"
    /\ pg.tags.e /\ ~pg.tags.w
    /\ pmem[0] = 1

\* C17: a single-axis transition that returns a region sets the tag of its own
\* axis and leaves the other two tags, the base address, the length, the mapping
\* and every byte unchanged; a byte read of a region whose mapping has the
\* protection of its tags returns the byte stored at its offset.
C17_TransitionFrame ==
    [][/\ (out'.op \in {"allow_read", "deny_read", "allow_write", "deny_write", "allow_exec", "deny_exec"}
           /\ out'.res = "ok")
           => LET t == pg.tags
                  u == pg'.tags
              IN /\ out'.op \in {"allow_read", "deny_read"}
                     => u.r = (out'.op = "allow_read") /\ u.w = t.w /\ u.e = t.e
                 /\ out'.op \in {"allow_write", "deny_write"}
                     => u.w = (out'.op = "allow_write") /\ u.r = t.r /\ u.e = t.e
                 /\ out'.op \in {"allow_exec", "deny_exec"}
                     => u.e = (out'.op = "allow_exec") /\ u.r = t.r /\ u.w = t.w
                 /\ pg'.ptr = pg.ptr
                 /\ pg'.len = pg.len
                 /\ pmem' = pmem
                 /\ os'[pg.ptr].st = "mapped"
                 /\ os'[pg.ptr].len = os[pg.ptr].len
       /\ (out'.op = "index" /\ out'.res = "ok" /\ os[pg.ptr].prot = NativeProt(pg.tags))
           => /\ out'.val = pmem[out'.arg]
              /\ pmem' = pmem]_vars

\* C17 witness: the pattern written into a readable, writable region was read
\* back after deny_write.
C17_Witness ==
    /\ out.op = "index"
    /\ out.res = "ok"
    /\ out.val = 1
    /\ pg.tags.r /\ ~pg.tags.w /\ ~pg.tags.e
    /\ os[pg.ptr].prot = NativeProt(pg.tags)

\* C20: a transition that takes a region that is not both writable and
\* executable to one that is (Write = Allow and Exec = Allow) is allow_write or
\* allow_exec; set_protected_exec always yields Write = Deny and Exec = Allow,
\* allow_write_no_exec always Write = Allow and Exec = Deny, and allow_read,
\* deny_read, deny_write, deny_exec never set a Write or Exec tag: no sequence of
\* these six transitions reaches the writable and executable state.
C20_WriteExecOnlyBySingleAxis ==
    [][(out'.op \in TransitionNames /\ out'.res = "ok")
        => LET t == pg.tags
               u == pg'.tags
           IN /\ (u.w /\ u.e /\ ~(t.w /\ t.e)) => out'.op \in {"allow_write", "allow_exec"}
              /\ out'.op = "set_protected_exec" => ~u.w /\ u.e
              /\ out'.op = "allow_write_no_exec" => u.w /\ ~u.e
              /\ out'.op \in {"allow_read", "deny_read", "deny_write", "deny_exec"}
                  => (u.w => t.w) /\ (u.e => t.e)]_vars

\* C20 witness: allow_exec on a writable region that was not executable reached
\* the writable and executable state.
C20_Witness ==
    /\ out.op = "allow_exec"
    /\ out.res = "ok"
    /\ pg.tags.w /\ pg.tags.e
    /\ Len(calls) = 1
    /\ IsProtect(calls[1])

\* C21: a byte read, a byte write, get_ptr, get_ptr_mut and get_fn_ptr succeed
\* for an offset below the region's length (the page-rounded one) and fail with
\* a bounds fault for every offset at or above it; a failed access changes
\* nothing, no access issues an OS call, and the accessors return the address at
\* that offset.
C21_BoundsFault ==
    [][out'.op \in AccessNames
        => /\ pg.len % PAGE_SIZE = 0
           /\ out'.res = IF out'.arg < pg.len THEN "ok" ELSE "panic"
           /\ pg' = pg
           /\ os' = os
           /\ calls' = <<>>
           /\ out'.res = "panic" => pmem' = pmem
           /\ out'.op # "index_mut" => pmem' = pmem
           /\ (out'.op = "index_mut" /\ out'.res = "ok")
               => /\ pmem'[out'.arg] = out'.val
                  /\ \A o \in 0..(pg.len - 1) : o # out'.arg => pmem'[o] = pmem[o]
           /\ (out'.op \in {"get_ptr", "get_ptr_mut", "get_fn_ptr"} /\ out'.res = "ok")
               => out'.val = out'.arg]_vars

\* C21 witness: get_fn_ptr at offset = length failed on a region that holds a
\* byte written before.
C21_Witness ==
    /\ out.op = "get_fn_ptr"
    /\ out.res = "panic"
    /\ out.arg = pg.len
    /\ pg # NoPages
    /\ pmem[0] = 1

\* C23: destroying a buffer tears down the elements [0, length), each once and
\* in index order, all of them before the one release call it issues on the
\* backing region, and nothing else; a buffer of length 0, as a cleared one is,
\* tears down nothing.
C23_DestroyTearsDownThenReleases ==
    [][out'.op = "destroy"
        => /\ Len(tears') = len
           /\ \A i \in 1..len : tears'[i] = [x |-> mem[i], owner |-> TRUE]
           /\ out'.arg = len
           /\ Len(calls') = 1
           /\ IsRelease(calls'[1])
           /\ calls'[1].ptr = data.ptr
           /\ calls'[1].live
           /\ calls'[1].ok => os'[data.ptr].st = "none"
           /\ \A id \in Ids : dropped'[id] = dropped[id] + Cardinality({i \in 1..len : mem[i] = id})]_vars

\* C23 witness: a buffer of two elements was destroyed.
C23_Witness ==
    /\ out.op = "destroy"
    /\ out.res = "ok"
    /\ vstate = "dropped"
    /\ Len(tears) = 2
    /\ tears[1].x # tears[2].x
    /\ Len(calls) = 1

\* C24: a push, reserve or reserve_exact whose reservation the OS refuses
\* panics; it issued that one OS call and no other, the buffer still owns its
\* old region, which is still mapped, and its length and slots are unchanged.
C24_RefusedGrowthIsFatal ==
    [][(/\ out'.op \in {"push", "reserve", "reserve_exact"}
        /\ \E i \in 1..Len(calls') : IsReserve(calls'[i]) /\ ~calls'[i].ok)
        => /\ out'.res = "panic"
           /\ Len(calls') = 1
           /\ data' = data
           /\ os' = os
           /\ os'[data.ptr].st = "mapped"
           /\ len' = len
           /\ mem' = mem
           /\ tears' = <<>>]_vars

\* C24 witness: a push on a full, non-empty buffer was refused its new region.
C24_Witness ==
    /\ out.op = "push"
    /\ out.res = "panic"
    /\ Len(calls) = 1
    /\ IsReserve(calls[1]) /\ ~calls[1].ok
    /\ vstate = "live"
    /\ len >= 1
    /\ os[data.ptr].st = "mapped"

\* C25: a transition whose protection-change call the OS accepts (or that needs
\* none) returns the re-tagged region, whatever the last-error value is.
C25_AcceptedProtectCompletes ==
    [][(/\ out'.op \in TransitionNames
        /\ \A i \in 1..Len(calls') : IsProtect(calls'[i]) => calls'[i].ok)
        => /\ out'.res = "ok"
           /\ pg' = [pg EXCEPT !.tags = Target(out'.op, pg.tags)]]_vars

\* The accesses an OS protection grants.
Grants(prot) ==
    IF platform = "unix"
    THEN {a \in {"r", "w", "e"} :
            \/ a = "r" /\ (prot \div PROT_READ) % 2 = 1
            \/ a = "w" /\ (prot \div PROT_WRITE) % 2 = 1
            \/ a = "e" /\ (prot \div PROT_EXEC) % 2 = 1}
    ELSE CASE prot = PAGE_NOACCESS -> {}
           [] prot = PAGE_READONLY -> {"r"}
           [] prot = PAGE_READWRITE -> {"r", "w"}
           [] prot = PAGE_EXECUTE -> {"e"}
           [] prot = PAGE_EXECUTE_READ -> {"r", "e"}
           [] prot = PAGE_EXECUTE_READWRITE -> {"r", "w", "e"}
Allowed(t) == {a \in {"r", "w", "e"} : t[a]}
Agree == pg # NoPages => /\ os[pg.ptr].st = "mapped"
                         /\ os[pg.ptr].len = pg.len
                         /\ os[pg.ptr].prot = NativeProt(pg.tags)

\* C26: as long as the OS accepts every call, the protection of a region's
\* mapping is the one the binding computes from the region's tags: it is so
\* before any region exists, and every step in which the OS refuses no call
\* keeps it so; such a step that changes the computed protection issues a
\* protection-change call.
C26_MappingProtFollowsTags ==
    [][(Agree /\ \A i \in 1..Len(calls') : calls'[i].ok)
        => /\ Agree'
           /\ (out'.op \in TransitionNames /\ pg' # NoPages /\ calls' = <<>>)
               => NativeProt(pg'.tags) = NativeProt(pg.tags)]_vars

\* C26 witness: a transition changed the protection of the mapping to the one
\* of its new tags.
C26_Witness ==
    /\ out.op \in TransitionNames
    /\ out.res = "ok"
    /\ Len(calls) = 1 /\ IsProtect(calls[1]) /\ calls[1].ok
    /\ Agree
    /\ pg.tags.e

\* C27: in the Windows binding every tag triple maps to a protection that
\* grants at least what the tags allow, and every triple with Write = Allow to a
\* readable one, so allow_read and deny_read on a writable region issue no OS
\* call; in the POSIX binding the eight triples map to eight protections, each
\* granting exactly what its tags allow, so every transition that changes a tag
\* issues exactly one protection-change call.  (The tables do not depend on the
\* state; they are examined at every construction.)
C27_PlatformTables ==
    [][/\ out'.op = "new"
           => \A t \in Tags :
                IF platform = "windows"
                THEN /\ Allowed(t) \subseteq Grants(flProtect(t))
                     /\ t.w => "r" \in Grants(flProtect(t))
                ELSE /\ Grants(bitmask(t)) = Allowed(t)
                     /\ \A u \in Tags : bitmask(u) = bitmask(t) => u = t
       /\ (platform = "windows" /\ out'.op \in {"allow_read", "deny_read"} /\ pg # NoPages /\ pg.tags.w)
           => /\ calls' = <<>>
              /\ out'.res = "ok"
              /\ pg'.tags.r = (out'.op = "allow_read")
       /\ (platform = "unix" /\ out'.op \in TransitionNames /\ pg # NoPages
              /\ Target(out'.op, pg.tags) # pg.tags)
           => /\ Len(ProtectCalls(calls')) = 1
              /\ IsProtect(calls'[1])]_vars

\* C27 witness: on the Windows binding, deny_read on a readable, writable
\* region returned a write-only tagged region without an OS call.
C27_Witness ==
    /\ platform = "windows"
    /\ out.op = "deny_read"
    /\ out.res = "ok"
    /\ pg # NoPages
    /\ pg.tags.w /\ ~pg.tags.r
    /\ calls = <<>>
    /\ "r" \in Grants(os[pg.ptr].prot)

\* C22: for every element size and every capacity hint h, a buffer that
\* PagedVec::new(h) returns has length 0 and a read-write, non-executable region
\* of max(h * size, one page) bytes rounded up to whole pages, which is at least
\* one page; its capacity is floor(region length / size) and at least h.
C22_NewBufferSizing ==
    [][(out'.op = "vec_new" /\ out'.res = "ok")
        => /\ len' = 0
           /\ data'.tags = VecTags
           /\ os'[data'.ptr].st = "mapped"
           /\ os'[data'.ptr].len = data'.len
           /\ Grants(os'[data'.ptr].prot) = {"r", "w"}
           /\ data'.len = next_page_boundary(Max(out'.arg * esize, PAGE_SIZE))
           /\ data'.len >= PAGE_SIZE
           /\ capacity(Vec)' = data'.len \div esize
           /\ capacity(Vec)' >= out'.arg]_vars

====
